---- MODULE Spec2Model ----
(***************************************************************************)
(* Model of funcs.py: performRadialCombination (the radial combination     *)
(* cycle of one network and one timestamp) and selectRadials (the listing  *)
(* of the radial files of the stations of a network).                      *)
(*                                                                         *)
(* A DataFrame is a sequence of rows (records); a Python local that has    *)
(* not been assigned yet has the value "unbound"; the functions imported   *)
(* from calc, totals and common are calls that either return or raise.     *)
(***************************************************************************)
EXTENDS Integers, Sequences, FiniteSets, TLC

\* Bounds of the model
MaxRadials == 2
MaxCycles == 2
MaxStations == 2

\* Values the inputs are drawn from
ExceptionalNetwork == "HFR-WesternItaly"
NetworkIds == {"HFR-WesternItaly", "HFR-TirLig"}
RadialCombinationValues == {0, 1}
Extensions == {".ruv", ".crad_ascii", ".tuv"}
FlagValues == {0, 1}
DateTimes == {"2023-11-15 17:00:00", "2023-11-15T17:00"}
RawData == [VELO |-> 3, HCSS |-> 2]
Manufacturers == {"CODAR", "WERA", "LERA", "Other"}
FolderPaths == {"", "/missing", "/data"}
FolderExtensions == {".ruv", ".crad_ascii"}

\* Scale factors of the WERA velocities and variances
VeloFactor == 100
HcssFactor == 10000

VARIABLES
    networkData,            \* first row of the network DataFrame
    combRad,                \* DataFrame of the radials to be combined
    pc,                     \* position inside the running function
    entered,                \* the branch of line 152 was taken in this cycle
    gridGS,                 \* local gridGS
    T,                      \* local T
    result,                 \* "running", "returned" or "raised"
    exception,              \* the exception that left the function
    returnValue,            \* value returned to the caller
    combinerInvoked,        \* combineRadials was called in this cycle
    combineLog,             \* arguments of every call of combineRadials
    cycle,                  \* number of calls of performRadialCombination
    stationData,            \* DataFrame of the stations of the network
    st,                     \* loop index of selectRadials
    fileTypeWildcard,       \* local fileTypeWildcard of selectRadials
    radialsToBeProcessed,   \* output DataFrame of selectRadials
    sRerr                   \* error flag of selectRadials

combVars == <<networkData, combRad, pc, entered, gridGS, T, result, exception,
              returnValue, combinerInvoked, combineLog, cycle>>
selVars == <<stationData, st, fileTypeWildcard, radialsToBeProcessed, sRerr>>
vars == <<networkData, combRad, pc, entered, gridGS, T, result, exception,
          returnValue, combinerInvoked, combineLog, cycle,
          stationData, st, fileTypeWildcard, radialsToBeProcessed, sRerr>>

-----------------------------------------------------------------------------
\* DataFrame helpers

\* df[name].values
Column(df, name) == [i \in 1..Len(df) |-> df[i][name]]

\* 0 in values
ZeroIn(values) == \E i \in 1..Len(values) : values[i] = 0

RECURSIVE Unique(_)
\* Series.unique().tolist(): the distinct values in order of first appearance
Unique(values) ==
    IF values = <<>> THEN <<>>
    ELSE LET front == Unique(SubSeq(values, 1, Len(values) - 1))
             last == values[Len(values)]
         IN IF \E i \in 1..Len(front) : front[i] = last
            THEN front
            ELSE Append(front, last)

\* Names bound in the scope of performRadialCombination
LocalNames == {"combRad", "networkData", "crErr", "combTot", "lonMin", "lonMax",
               "latMin", "latMax", "gridResolution", "exts", "gridGS",
               "searchRadius", "timeStamp", "T", "warn", "idx"}

\* dt.datetime.strptime(s, '%Y-%m-%d %H:%M:%S') returns (does not raise)
ParsesAsDateTime(s) == s = "2023-11-15 17:00:00"

-----------------------------------------------------------------------------
\* performRadialCombination

\* networkData.iloc[0]['radial_combination'] == 1
CombinationEnabledAlways(nd) == TRUE
CombinationEnabled(nd) == nd.radial_combination = 1

\* the test of line 152: the radials were not combined yet
ProceedDefaultOnly(cr, nd) == ZeroIn(Column(cr, "NRT_combined_flag"))
Proceed(cr, nd) ==
    \/ /\ nd.network_id /= ExceptionalNetwork
       /\ ZeroIn(Column(cr, "NRT_combined_flag"))
    \/ /\ nd.network_id = ExceptionalNetwork
       /\ ZeroIn(Column(cr, "NRT_processed_flag_integrated_network"))

\* the grid function chosen by lines 164-170 ("unbound": gridGS not assigned)
GridMethodAlwaysBB(exts) == "createLonLatGridFromBB"
GridMethod(exts) ==
    IF Len(exts) = 1
    THEN IF exts[1] = ".ruv" THEN "createLonLatGridFromBB"
         ELSE IF exts[1] = ".crad_ascii" THEN "createLonLatGridFromBBwera"
         ELSE "unbound"
    ELSE "createLonLatGridFromBB"

\* the rows selected by the loop of line 174 and scaled by lines 175-176
ScaleRadials(cr) ==
    [i \in 1..Len(cr) |->
        IF cr[i].extension = ".crad_ascii"
        THEN [cr[i] EXCEPT !.VELO = @ * VeloFactor, !.HCSS = @ * HcssFactor]
        ELSE cr[i]]

\* the DataFrame passed to combineRadials at line 185
CombinerInputPendingOnly(cr) == SelectSeq(cr, LAMBDA r : r.NRT_combined_flag = 0)
CombinerInput(cr) == cr

\* the value given to T.is_wera by lines 194-200 ("unset": not assigned);
\* Python's True and False are written "True" and "False"
IsWeraSwapped(exts) ==
    IF Len(exts) = 1
    THEN IF exts[1] = ".ruv" THEN "True"
         ELSE IF exts[1] = ".crad_ascii" THEN "False"
         ELSE "unset"
    ELSE "False"
IsWera(exts) ==
    IF Len(exts) = 1
    THEN IF exts[1] = ".ruv" THEN "False"
         ELSE IF exts[1] = ".crad_ascii" THEN "True"
         ELSE "unset"
    ELSE "False"

\* exts = combRad.extension.unique().tolist()
Exts == Unique(Column(combRad, "extension"))

\* the local T before its assignment, and the absence of a returned value
UnboundT == [unbound |-> TRUE]
NoValue == [none |-> TRUE]

\* an exception leaves performRadialCombination
Raise(e) ==
    /\ pc' = "done"
    /\ result' = "raised"
    /\ exception' = e

\* lines 143-150: setup and the test of radial_combination
CheckCombination ==
    /\ pc = "l150"
    /\ pc' = IF CombinationEnabled(networkData) THEN "l152" ELSE "l202"
    /\ UNCHANGED <<networkData, combRad, entered, gridGS, T, result, exception,
                   returnValue, combinerInvoked, combineLog, cycle>>
    /\ UNCHANGED selVars

\* line 152: the test of the flags
CheckFlags ==
    /\ pc = "l152"
    /\ IF Proceed(combRad, networkData)
       THEN /\ entered' = TRUE
            /\ pc' = "l163"
       ELSE /\ entered' = FALSE
            /\ pc' = "l202"
    /\ UNCHANGED <<networkData, combRad, gridGS, T, result, exception,
                   returnValue, combinerInvoked, combineLog, cycle>>
    /\ UNCHANGED selVars

\* lines 153-170: bounding box, resolution and geographical grid
CreateGrid ==
    /\ pc = "l163"
    /\ IF GridMethod(Exts) = "unbound"
       THEN /\ pc' = "l173"
            /\ UNCHANGED <<gridGS, result, exception>>
       ELSE \E ok \in BOOLEAN :
                IF ok
                THEN /\ gridGS' = GridMethod(Exts)
                     /\ pc' = "l173"
                     /\ UNCHANGED <<result, exception>>
                ELSE /\ Raise("GridError")
                     /\ UNCHANGED gridGS
    /\ UNCHANGED <<networkData, combRad, entered, T, returnValue,
                   combinerInvoked, combineLog, cycle>>
    /\ UNCHANGED selVars

\* lines 172-176: scaling of the WERA radials of a mixed group
ScaleWera ==
    /\ pc = "l173"
    /\ IF Len(Exts) > 1
       THEN IF "combRadcombRad" \in LocalNames
            THEN /\ combRad' = ScaleRadials(combRad)
                 /\ pc' = "l182"
                 /\ UNCHANGED <<result, exception>>
            ELSE /\ Raise("NameError")
                 /\ UNCHANGED combRad
       ELSE /\ pc' = "l182"
            /\ UNCHANGED <<combRad, result, exception>>
    /\ UNCHANGED <<networkData, entered, gridGS, T, returnValue,
                   combinerInvoked, combineLog, cycle>>
    /\ UNCHANGED selVars

\* lines 178-182: search radius and timestamp
GetTimeStamp ==
    /\ pc = "l182"
    /\ IF ParsesAsDateTime(combRad[1].datetime)
       THEN /\ pc' = "l185"
            /\ UNCHANGED <<result, exception>>
       ELSE Raise("ValueError")
    /\ UNCHANGED <<networkData, combRad, entered, gridGS, T, returnValue,
                   combinerInvoked, combineLog, cycle>>
    /\ UNCHANGED selVars

\* line 185: the call of combineRadials
Combine ==
    /\ pc = "l185"
    /\ IF gridGS = "unbound"
       THEN /\ Raise("UnboundLocalError")
            /\ UNCHANGED <<T, combinerInvoked, combineLog>>
       ELSE /\ combinerInvoked' = TRUE
            /\ combineLog' = Append(combineLog,
                   [cycle |-> cycle, network_id |-> networkData.network_id,
                    radials |-> CombinerInput(combRad), grid |-> gridGS])
            /\ \E ok \in BOOLEAN :
                   IF ok
                   THEN /\ T' = [is_combined |-> "unset", is_wera |-> "unset"]
                        /\ pc' = "l188"
                        /\ UNCHANGED <<result, exception>>
                   ELSE /\ Raise("CombinationError")
                        /\ UNCHANGED T
    /\ UNCHANGED <<networkData, combRad, entered, gridGS, returnValue, cycle>>
    /\ UNCHANGED selVars

\* lines 187-200: bounding box metadata, is_combined and is_wera
SetAttributes ==
    /\ pc = "l188"
    /\ \E ok \in BOOLEAN :
           IF ok
           THEN /\ T' = IF IsWera(Exts) = "unset"
                        THEN [T EXCEPT !.is_combined = "True"]
                        ELSE [T EXCEPT !.is_combined = "True",
                                       !.is_wera = IsWera(Exts)]
                /\ pc' = "l202"
                /\ UNCHANGED <<result, exception>>
           ELSE /\ Raise("MetadataError")
                /\ UNCHANGED T
    /\ UNCHANGED <<networkData, combRad, entered, gridGS, returnValue,
                   combinerInvoked, combineLog, cycle>>
    /\ UNCHANGED selVars

\* line 202: return T
ReturnT ==
    /\ pc = "l202"
    /\ IF T = UnboundT
       THEN /\ Raise("UnboundLocalError")
            /\ UNCHANGED returnValue
       ELSE /\ pc' = "done"
            /\ result' = "returned"
            /\ returnValue' = T
            /\ UNCHANGED exception
    /\ UNCHANGED <<networkData, combRad, entered, gridGS, T,
                   combinerInvoked, combineLog, cycle>>
    /\ UNCHANGED selVars

\* the caller runs the next cycle on the same radials: line 120, fresh locals
NextCycle ==
    /\ pc = "done"
    /\ cycle < MaxCycles
    /\ cycle' = cycle + 1
    /\ pc' = "l150"
    /\ entered' = FALSE
    /\ gridGS' = "unbound"
    /\ T' = UnboundT
    /\ result' = "running"
    /\ exception' = "none"
    /\ returnValue' = NoValue
    /\ combinerInvoked' = FALSE
    /\ UNCHANGED <<networkData, combRad, combineLog>>
    /\ UNCHANGED selVars

-----------------------------------------------------------------------------
\* selectRadials

\* str.lower() of the manufacturer
Lower(m) ==
    CASE m = "CODAR" -> "codar"
      [] m = "WERA" -> "wera"
      [] m = "LERA" -> "lera"
      [] OTHER -> "other"

\* lines 254-260: the wildcard after the manufacturer tests; current is the
\* value the local holds before them
NextWildcard(current, manufacturer) ==
    IF "codar" = Lower(manufacturer) THEN "**/*.ruv"
    ELSE IF "wera" = Lower(manufacturer) THEN "**/*.crad_ascii"
    ELSE IF "lera" = Lower(manufacturer) THEN "**/*.crad_ascii"
    ELSE current

\* line 262: glob of the wildcard in a folder holding files of the given
\* extensions (one file per extension)
Glob(files, wildcard) ==
    {f \in files : \/ wildcard = "**/*.ruv" /\ f = ".ruv"
                   \/ wildcard = "**/*.crad_ascii" /\ f = ".crad_ascii"}

\* lines 283-288: the row of one radial file
DataRadial(stationID, fileExt) ==
    [station_id |-> stationID, extension |-> fileExt,
     NRT_processed_flag |-> 0, NRT_processed_flag_integrated_network |-> 0,
     NRT_combined_flag |-> 0]

RECURSIVE SetToSeq(_)
\* the list of the files found by glob
SetToSeq(s) ==
    IF s = {} THEN <<>>
    ELSE LET x == CHOOSE y \in s : TRUE IN <<x>> \o SetToSeq(s \ {x})

\* lines 239-297: one iteration of the loop over the stations
ScanStation ==
    /\ pc = "scan"
    /\ st < Len(stationData)
    /\ st' = st + 1
    /\ LET station == stationData[st + 1]
           inputFolder == station.radial_input_folder_path
       IN IF inputFolder = "" \/ inputFolder = "/missing"
          THEN UNCHANGED <<fileTypeWildcard, radialsToBeProcessed, sRerr>>
          ELSE LET wildcard == NextWildcard(fileTypeWildcard, station.manufacturer)
               IN /\ fileTypeWildcard' = wildcard
                  /\ IF wildcard = "unbound"
                     THEN /\ sRerr' = TRUE
                          /\ UNCHANGED radialsToBeProcessed
                     ELSE \E unreadable \in SUBSET Glob(station.files, wildcard) :
                              /\ radialsToBeProcessed' = radialsToBeProcessed \o
                                     [i \in 1..Cardinality(Glob(station.files, wildcard) \ unreadable) |->
                                         DataRadial(station.station_id,
                                             SetToSeq(Glob(station.files, wildcard) \ unreadable)[i])]
                              /\ sRerr' = (sRerr \/ unreadable /= {})
    /\ UNCHANGED pc
    /\ UNCHANGED <<networkData, combRad, entered, gridGS, T, result, exception,
                   returnValue, combinerInvoked, combineLog, cycle, stationData>>

\* line 299: return radialsToBeProcessed
ReturnRadials ==
    /\ pc = "scan"
    /\ st = Len(stationData)
    /\ pc' = "selected"
    /\ UNCHANGED <<networkData, combRad, entered, gridGS, T, result, exception,
                   returnValue, combinerInvoked, combineLog, cycle>>
    /\ UNCHANGED selVars

-----------------------------------------------------------------------------
\* Specifications

Rows(d) == [extension : Extensions, NRT_combined_flag : FlagValues,
            NRT_processed_flag_integrated_network : FlagValues,
            datetime : {d}, VELO : {RawData.VELO}, HCSS : {RawData.HCSS}]

Stations(i) == [station_id : {i}, manufacturer : Manufacturers,
                radial_input_folder_path : FolderPaths,
                files : SUBSET FolderExtensions]

\* a folder that is not specified or does not exist holds no files
StationOk(s) == s.radial_input_folder_path /= "/data" => s.files = {}

InitCombLocals ==
    /\ entered = FALSE
    /\ gridGS = "unbound"
    /\ T = UnboundT
    /\ result = "running"
    /\ exception = "none"
    /\ returnValue = NoValue
    /\ combinerInvoked = FALSE
    /\ combineLog = <<>>
    /\ cycle = 1

InitSelLocals ==
    /\ st = 0
    /\ fileTypeWildcard = "unbound"
    /\ radialsToBeProcessed = <<>>
    /\ sRerr = FALSE

\* performRadialCombination is called for a network and a group of radials
Init ==
    /\ networkData \in [network_id : NetworkIds,
                        radial_combination : RadialCombinationValues]
    /\ \E d \in DateTimes :
           combRad \in UNION {[1..n -> Rows(d)] : n \in 0..MaxRadials}
    /\ pc = "l150"
    /\ InitCombLocals
    /\ stationData = <<>>
    /\ InitSelLocals

Next ==
    \/ CheckCombination
    \/ CheckFlags
    \/ CreateGrid
    \/ ScaleWera
    \/ GetTimeStamp
    \/ Combine
    \/ SetAttributes
    \/ ReturnT
    \/ NextCycle

Spec == Init /\ [][Next]_vars

\* selectRadials is called for the stations of a network
InitSelect ==
    /\ networkData = [network_id |-> "HFR-TirLig", radial_combination |-> 1]
    /\ combRad = <<>>
    /\ pc = "scan"
    /\ InitCombLocals
    /\ stationData \in UNION {{s \in [1..n -> UNION {Stations(i) : i \in 1..n}] :
                                  \A i \in 1..n : s[i].station_id = i /\ StationOk(s[i])} :
                              n \in 0..MaxStations}
    /\ InitSelLocals

NextSelect ==
    \/ ScanStation
    \/ ReturnRadials

SpecSelect == InitSelect /\ [][NextSelect]_vars

-----------------------------------------------------------------------------
\* Properties of performRadialCombination (checked under Spec)

SomeCombinedFlagUnset == \E i \in DOMAIN combRad : combRad[i].NRT_combined_flag = 0
SomeIntegratedFlagUnset ==
    \E i \in DOMAIN combRad : combRad[i].NRT_processed_flag_integrated_network = 0
GoverningFlagUnset ==
    IF networkData.network_id = "HFR-WesternItaly"
    THEN SomeIntegratedFlagUnset
    ELSE SomeCombinedFlagUnset
AllOfFormat(ext) == \A i \in DOMAIN combRad : combRad[i].extension = ext
MixedFormats ==
    \E i, j \in DOMAIN combRad : combRad[i].extension /= combRad[j].extension

\* C1: with radial combination enabled, once the test of line 152 is made the
\* cycle proceeds exactly when some candidate has NRT_combined_flag = 0 (any
\* network but HFR-WesternItaly) or some candidate has
\* NRT_processed_flag_integrated_network = 0 (HFR-WesternItaly).
C1_ProceedDecision ==
    (networkData.radial_combination = 1 /\ pc \notin {"l150", "l152"})
        => (entered <=> GoverningFlagUnset)

\* C1 witness: HFR-WesternItaly proceeds although every NRT_combined_flag is set
C1_Witness ==
    /\ entered
    /\ networkData.network_id = "HFR-WesternItaly"
    /\ ~SomeCombinedFlagUnset

C3_NotProceedingReturns ==
    (pc = "done" /\ ~entered) => (result = "returned" /\ ~combinerInvoked)

\* C4 as stated: in a proceeding cycle of a mixed-format group whose grid is
\* built, past the scaling step every '.crad_ascii' row has VELO * 100 and
\* HCSS * 10000 and every other row is unchanged.
C4_WeraScaledOnce ==
    (entered /\ MixedFormats /\ gridGS /= "unbound" /\ pc /= "l173")
        => \A i \in DOMAIN combRad :
               IF combRad[i].extension = ".crad_ascii"
               THEN /\ combRad[i].VELO = RawData.VELO * 100
                    /\ combRad[i].HCSS = RawData.HCSS * 10000
               ELSE /\ combRad[i].VELO = RawData.VELO
                    /\ combRad[i].HCSS = RawData.HCSS

\* C5 as stated: no exception raised inside a proceeding cycle leaves
\* performRadialCombination.
C5_NoExceptionPropagates == entered => result /= "raised"

\* C6 as stated: when an estimate is returned, every contributing observation
\* has NRT_combined_flag moved away from 0.
C6_FlagsMovedToCombined ==
    result = "returned"
        => \A i \in DOMAIN combRad : combRad[i].NRT_combined_flag /= 0

\* C7: a returned estimate has is_combined True and is_wera True or False,
\* is_wera being True exactly when every observation is '.crad_ascii'.
C7_ReturnedFlags ==
    result = "returned"
        => /\ returnValue.is_combined = "True"
           /\ returnValue.is_wera \in {"True", "False"}
           /\ (returnValue.is_wera = "True" <=> AllOfFormat(".crad_ascii"))

\* C7 witness: an estimate of an all-'.crad_ascii' group is returned
C7_Witness ==
    /\ result = "returned"
    /\ returnValue.is_wera = "True"
    /\ AllOfFormat(".crad_ascii")

C9_EstimateOnlyIfAccepted ==
    (combinerInvoked \/ result = "returned")
        => /\ networkData.radial_combination = 1
           /\ Len(combRad) > 0
           /\ GoverningFlagUnset

\* C9 witness: an estimate is returned for a network under the default rule
C9_Witness ==
    /\ result = "returned"
    /\ combinerInvoked
    /\ networkData.network_id /= "HFR-WesternItaly"

-----------------------------------------------------------------------------
\* Property of selectRadials (checked under SpecSelect)

\* C10 as stated: every listed record belongs to a station whose manufacturer
\* is one of codar, wera, lera, has the extension of that manufacturer, and
\* carries the three processing flags equal to 0.
C10_OwnManufacturerOnly ==
    \A r \in DOMAIN radialsToBeProcessed :
        LET rec == radialsToBeProcessed[r]
            m == stationData[rec.station_id].manufacturer
        IN /\ m \in {"CODAR", "WERA", "LERA"}
           /\ rec.extension = (IF m = "CODAR" THEN ".ruv" ELSE ".crad_ascii")
           /\ rec.NRT_processed_flag = 0
           /\ rec.NRT_processed_flag_integrated_network = 0
           /\ rec.NRT_combined_flag = 0

====
